---- MODULE Spec2Model ----
(***************************************************************************)
(* Spring bone (VRM 1.0) per-frame update of                               *)
(* io_scene_vrm/editor/spring_bone1/handler.py.                            *)
(*                                                                         *)
(* Geometry is restricted to collinear configurations: every bone, the     *)
(* object's world translation and the gravity direction lie on one world   *)
(* axis, so a Vector is an integer, Vector.length is the absolute value    *)
(* and Vector.normalized() is the sign (the zero vector normalizes to the  *)
(* zero vector, as mathutils does).  Every object owns its armature data,  *)
(* so no two objects share a joint's state.  The host changes no pose      *)
(* between ticks.                                                          *)
(***************************************************************************)
EXTENDS Integers, Sequences

\* ---------------------------------------------------------------- bounds
MaxTicks == 2
MaxFrame == 2

\* ------------------------------------------------------------- constants
\* update_objects(1): the delta time the handler passes on every tick
DeltaTime == 1

Frames == 1 .. MaxFrame

\* ------------------------------------------------------------- the scene
Objects == {1, 2}

\* None, for an absent parent or an absent pose bone
None == "None"

\* the bones of an armature: A is the root, B and D its children, C the
\* child of B
Bones == {"A", "B", "C", "D"}

BoneParent == [b \in Bones |->
                 CASE b = "A" -> None
                   [] b = "B" -> "A"
                   [] b = "C" -> "B"
                   [] b = "D" -> "A"]

\* bone.matrix_local translation (rest pose, armature space)
RestLocation == [b \in Bones |->
                   CASE b = "A" -> 0
                     [] b = "B" -> 1
                     [] b = "C" -> 2
                     [] b = "D" -> 0 - 1]

\* pose_bone.matrix translation (live pose, armature space)
PoseLocations == { RestLocation,
                   [b \in Bones |->
                      CASE b = "A" -> 0
                        [] b = "B" -> 1
                        [] b = "C" -> 3
                        [] b = "D" -> 0 - 2] }

AllFalse == [b \in Bones |-> FALSE]
AllTrue  == [b \in Bones |-> TRUE]

\* bone.use_connect / bone.use_local_location of every bone
BoneFlags == { [use_connect |-> AllFalse, use_local_location |-> AllTrue],
               [use_connect |-> [AllFalse EXCEPT !["D"] = TRUE],
                use_local_location |-> AllTrue],
               [use_connect |-> AllFalse,
                use_local_location |-> [AllTrue EXCEPT !["C"] = FALSE]],
               [use_connect |-> [AllFalse EXCEPT !["B"] = TRUE],
                use_local_location |-> AllTrue] }

\* spring_bone1.springs: each spring is the sequence of its joints' node
\* values (bone names); "Z" names no pose bone
SpringSets == { << <<"A", "B", "C">> >>,
                << <<"A", "B", "C">>, <<"A", "D">> >>,
                << <<"B", "D">>, <<"A", "B", "C">> >>,
                << <<"A", "B", "C">>, <<"B", "D">> >>,
                << <<"A", "B", "D">> >>,
                << <<"A", "Z", "C">>, <<"A", "C">> >>,
                << <<"A">> >> }

MaxSprings == 2
MaxJoints  == 3

\* obj.matrix_world: a translation along the axis, one per object
MatrixWorld == [o \in Objects |-> IF o = 1 THEN 0 ELSE 3]

\* the armatures of the scene: every spring set with every flag setting in
\* the rest pose, and with every pose under the default flags
ArmatureObjects ==
  { [type |-> "ARMATURE", is_vrm1 |-> TRUE, springs |-> sp,
     use_connect |-> fl.use_connect,
     use_local_location |-> fl.use_local_location,
     matrix |-> RestLocation] :
       sp \in SpringSets, fl \in BoneFlags }
  \cup
  { [type |-> "ARMATURE", is_vrm1 |-> TRUE, springs |-> sp,
     use_connect |-> AllFalse, use_local_location |-> AllTrue,
     matrix |-> ps] :
       sp \in SpringSets, ps \in PoseLocations }

DefaultSprings == << <<"A", "B", "C">> >>

OtherObjects ==
  { [type |-> ty.type, is_vrm1 |-> ty.is_vrm1, springs |-> DefaultSprings,
     use_connect |-> AllFalse, use_local_location |-> AllTrue,
     matrix |-> RestLocation] :
       ty \in { [type |-> "MESH", is_vrm1 |-> FALSE],
                [type |-> "ARMATURE", is_vrm1 |-> FALSE] } }

\* the joint parameters; every joint of the scene carries the same ones.
\* The update reads gravity_dir and gravity_power only; stiffness and
\* drag_force are the other two parameters of a joint.
JointParams ==
  [ gravity_dir : {0 - 1, 1}, gravity_power : {0, 1},
    stiffness : {0, 1}, drag_force : {0, 1} ]

JointIds == Objects \X (1 .. MaxSprings) \X (1 .. MaxJoints)

VARIABLES
  objects,              \* bpy.data.objects: object -> its configuration
  joint,                \* the parameters of the joints
  state,                \* joint id -> [initialized, prev_tail]
  rotation_quaternion,  \* object -> bone -> local rotation of the pose bone
  rotation_mode,        \* object -> bone -> rotation mode of the pose bone
  global_counts,        \* global_counts[0]
  global_initialized,   \* global_initialized[0]
  frame_current,        \* bpy.context.scene.frame_current at the last tick
  ticks,                \* calls of frame_change_pre so far
  passes,               \* calls of update_objects so far
  ran,                  \* whether the last tick called update_objects
  visited,              \* springs whose pairs the last pass started to check
  errors,               \* springs for which the last pass logged an error
  calls                 \* the update_spring_joint_pair calls of the last pass

vars == << objects, joint, state, rotation_quaternion, rotation_mode,
           global_counts, global_initialized, frame_current, ticks, passes,
           ran, visited, errors, calls >>

\* ----------------------------------------------------------- vector math
Abs(x) == IF x < 0 THEN 0 - x ELSE x

\* Vector.normalized()
Normalized(v) == IF v > 0 THEN 1 ELSE IF v < 0 THEN 0 - 1 ELSE 0

\* (Matrix(obj.matrix_world) @ Matrix(m)).to_translation()
WorldLocation(o, loc) == MatrixWorld[o] + loc

\* ------------------------------------------------------------ validation
\* obj.pose.bones.get(name)
PoseBoneGet(name) == IF name \in Bones THEN name ELSE None

RECURSIVE SearchTailParent(_, _)
SearchTailParent(searching_tail_parent, head_bone_name) ==
  IF searching_tail_parent = None THEN FALSE
  ELSE IF searching_tail_parent = head_bone_name THEN TRUE
  ELSE SearchTailParent(BoneParent[searching_tail_parent], head_bone_name)

\* a descendant check that accepts every pair
HeadTailParentedAlways(head_bone_name, tail_bone_name) == TRUE

\* the ancestor walk from tail_pose_bone.parent
HeadTailParented(head_bone_name, tail_bone_name) ==
  SearchTailParent(BoneParent[tail_bone_name], head_bone_name)

\* the soft checks of one pair, in the order of the code: TRUE when the pair
\* is skipped with continue
PairSkipped(obj, head_bone_name, tail_bone_name) ==
  \/ PoseBoneGet(head_bone_name) = None
  \/ obj.use_connect[head_bone_name]
  \/ ~ obj.use_local_location[head_bone_name]
  \/ PoseBoneGet(tail_bone_name) = None
  \/ obj.use_connect[tail_bone_name]
  \/ ~ obj.use_local_location[tail_bone_name]

\* the first loop of update_object over zip(joints, joints[1:]), from pair i
\* on: the inputs gathered, and whether the loop ended by the return
RECURSIVE GatherInputs(_, _, _, _, _)
GatherInputs(o, obj, joints, i, inputs) ==
  IF i >= Len(joints) THEN [inputs |-> inputs, returned |-> FALSE]
  ELSE IF PairSkipped(obj, joints[i], joints[i + 1])
       THEN GatherInputs(o, obj, joints, i + 1, inputs)
  ELSE IF ~ HeadTailParented(joints[i], joints[i + 1])
       THEN [inputs |-> inputs, returned |-> TRUE]
  ELSE GatherInputs(o, obj, joints, i + 1,
         Append(inputs,
           [pair |-> i,
            head |-> joints[i],
            tail |-> joints[i + 1],
            head_tail_world_distance |->
              Abs(WorldLocation(o, RestLocation[joints[i]])
                  - WorldLocation(o, RestLocation[joints[i + 1]])),
            current_tail_world_location |->
              WorldLocation(o, obj.matrix[joints[i + 1]])]))


\* ----------------------------------------------------------- integration
\* a state update that stores the constrained tail instead
StoredPrevTailNext(current_tail_world_location, next_tail_world_location) ==
  next_tail_world_location

\* head_spring_joint.state.prev_tail = current_tail_world_location[:]
StoredPrevTail(current_tail_world_location, next_tail_world_location) ==
  current_tail_world_location

\* one call of update_spring_joint_pair for the input inp of spring s of
\* object o, on the pass state p
update_spring_joint_pair(p, delta_time, o, s, inp) ==
  LET id == << o, s, inp.pair >>
      current_tail_world_location == inp.current_tail_world_location
      initialising == ~ p.global_initialized
      state1 == IF initialising
                THEN [p.state EXCEPT ![id] =
                        [initialized |-> TRUE,
                         prev_tail |-> current_tail_world_location]]
                ELSE p.state
      external == delta_time * joint.gravity_dir * joint.gravity_power
      next_head_world_location ==
        WorldLocation(o, objects[o].matrix[inp.head])
      candidate == current_tail_world_location + external
      next_tail_world_location ==
        next_head_world_location
        + Normalized(candidate - next_head_world_location)
          * inp.head_tail_world_distance
      state2 == [state1 EXCEPT ![id].prev_tail =
                   StoredPrevTail(current_tail_world_location,
                                  next_tail_world_location)]
  IN [p EXCEPT
        !.state = state2,
        !.global_initialized = TRUE,
        !.calls = Append(@,
           [obj |-> o, spring |-> s, pair |-> inp.pair,
            head |-> inp.head, tail |-> inp.tail,
            head_tail_world_distance |-> inp.head_tail_world_distance,
            current_tail_world_location |-> current_tail_world_location,
            prev_tail |-> state1[id].prev_tail,
            next_head_world_location |-> next_head_world_location,
            candidate |-> candidate,
            next_tail_world_location |-> next_tail_world_location])]

\* the second loop of update_object: one call per gathered input
RECURSIVE UpdatePairs(_, _, _, _, _, _)
UpdatePairs(p, delta_time, o, s, inputs, k) ==
  IF k > Len(inputs) THEN p
  ELSE UpdatePairs(update_spring_joint_pair(p, delta_time, o, s, inputs[k]),
                   delta_time, o, s, inputs, k + 1)

\* the loop of update_object over spring_bone1.springs, from spring s on;
\* the return of the descendant check leaves the loop and the function
RECURSIVE UpdateSprings(_, _, _, _)
UpdateSprings(p, delta_time, o, s) ==
  IF s > Len(objects[o].springs) THEN p
  ELSE LET g == GatherInputs(o, objects[o], objects[o].springs[s], 1, << >>)
           pv == [p EXCEPT !.visited = @ \cup { << o, s >> }]
       IN IF g.returned
          THEN [pv EXCEPT !.errors = @ \cup { << o, s >> }]
          ELSE UpdateSprings(UpdatePairs(pv, delta_time, o, s, g.inputs, 1),
                             delta_time, o, s + 1)

update_object(p, delta_time, o) ==
  IF objects[o].type # "ARMATURE" THEN p
  ELSE IF ~ objects[o].is_vrm1 THEN p
  ELSE UpdateSprings(p, delta_time, o, 1)

RECURSIVE UpdateObjectsFrom(_, _, _)
UpdateObjectsFrom(p, delta_time, o) ==
  IF o \notin Objects THEN p
  ELSE UpdateObjectsFrom(update_object(p, delta_time, o), delta_time, o + 1)

\* for obj in bpy.data.objects: update_object(delta_time, obj)
update_objects(p, delta_time) == UpdateObjectsFrom(p, delta_time, 1)

\* ---------------------------------------------------------------- handler
\* one frame-change tick of the host, at frame f
frame_change_pre(f) ==
  /\ ticks < MaxTicks
  /\ ticks' = ticks + 1
  /\ frame_current' = f
  /\ IF global_counts >= 1
     THEN /\ ran' = FALSE
          /\ UNCHANGED << state, global_counts, global_initialized, passes,
                          visited, errors, calls >>
     ELSE LET p == update_objects(
                     [state |-> state,
                      global_initialized |-> global_initialized,
                      visited |-> {}, errors |-> {}, calls |-> << >>],
                     DeltaTime)
          IN /\ global_counts' = global_counts + 1
             /\ passes' = passes + 1
             /\ ran' = TRUE
             /\ state' = p.state
             /\ global_initialized' = p.global_initialized
             /\ visited' = p.visited
             /\ errors' = p.errors
             /\ calls' = p.calls
  /\ UNCHANGED << objects, joint, rotation_quaternion, rotation_mode >>

Init ==
  /\ objects \in [Objects -> ArmatureObjects \cup OtherObjects]
  /\ joint \in JointParams
  /\ state = [id \in JointIds |-> [initialized |-> FALSE, prev_tail |-> 0]]
  /\ rotation_quaternion = [o \in Objects |-> [b \in Bones |-> 0]]
  /\ rotation_mode = [o \in Objects |-> [b \in Bones |-> "XYZ"]]
  /\ global_counts = 0
  /\ global_initialized = FALSE
  /\ frame_current = 0
  /\ ticks = 0
  /\ passes = 0
  /\ ran = FALSE
  /\ visited = {}
  /\ errors = {}
  /\ calls = << >>

Next == \E f \in Frames : frame_change_pre(f)

Spec == Init /\ [][Next]_vars


\* ================================================================ claims
\* What the claims speak of, stated on the scene itself and not through the
\* operators of the update.

\* the armatures the update simulates
Simulated(o) == objects[o].type = "ARMATURE" /\ objects[o].is_vrm1

SpringsOf(o) == 1 .. Len(objects[o].springs)
PairsOf(o, s) == 1 .. (Len(objects[o].springs[s]) - 1)
HeadOf(o, s, i) == objects[o].springs[s][i]
TailOf(o, s, i) == objects[o].springs[s][i + 1]

\* the proper ancestors of a bone
RECURSIVE AncestorsOf(_)
AncestorsOf(b) ==
  IF BoneParent[b] = None THEN {}
  ELSE { BoneParent[b] } \cup AncestorsOf(BoneParent[b])

BoneUsable(o, b) ==
  /\ b \in Bones
  /\ ~ objects[o].use_connect[b]
  /\ objects[o].use_local_location[b]

\* both bones exist, are not connected and use local location
SoftOk(o, s, i) == BoneUsable(o, HeadOf(o, s, i)) /\ BoneUsable(o, TailOf(o, s, i))

\* both bones exist and the tail is no strict descendant of the head
NotDescendant(o, s, i) ==
  /\ HeadOf(o, s, i) \in Bones
  /\ TailOf(o, s, i) \in Bones
  /\ HeadOf(o, s, i) \notin AncestorsOf(TailOf(o, s, i))

ValidPair(o, s, i) == SoftOk(o, s, i) /\ ~ NotDescendant(o, s, i)
HardPair(o, s, i) == SoftOk(o, s, i) /\ NotDescendant(o, s, i)
HardChain(o, s) == \E i \in PairsOf(o, s) : HardPair(o, s, i)

Integrated(o, s, i) ==
  \E k \in DOMAIN calls :
    calls[k].obj = o /\ calls[k].spring = s /\ calls[k].pair = i

CallId(c) == << c.obj, c.spring, c.pair >>

\* the tail's world position in the live pose
TailWorld(o, s, i) == WorldLocation(o, objects[o].matrix[TailOf(o, s, i)])

\* C1: in the pass, a chain with a pair failing the descendant check leaves
\* every valid pair of every other error-free chain, of the same object or of
\* another, integrated.
C1_OtherChainsUpdated ==
  passes >= 1 =>
    \A o \in Objects : \A s \in SpringsOf(o) :
      (Simulated(o) /\ HardChain(o, s)) =>
        \A o2 \in Objects : \A s2 \in SpringsOf(o2) :
          (Simulated(o2) /\ << o2, s2 >> # << o, s >> /\ ~ HardChain(o2, s2)) =>
            \A i \in PairsOf(o2, s2) : ValidPair(o2, s2, i) => Integrated(o2, s2, i)

\* C2 as stated: the update of a chain holding a pair whose tail bone is no
\* strict descendant of its head bone logs the chain error, changes no
\* rotation and returns.
C2_AnyNonDescendantPairRejected ==
  [][ passes' > passes =>
        \A c \in visited' :
          (\E i \in PairsOf(c[1], c[2]) : NotDescendant(c[1], c[2], i)) =>
            /\ c \in errors'
            /\ rotation_quaternion' = rotation_quaternion
            /\ rotation_mode' = rotation_mode
            /\ ran' ]_vars

\* C2 as amended: the update of a chain holding a pair that passes the soft
\* checks and whose tail bone is no strict descendant of its head bone logs
\* the chain error, integrates no pair of the chain, changes no rotation and
\* returns.
C2_TopologyRejection ==
  [][ passes' > passes =>
        \A c \in visited' :
          (\E i \in PairsOf(c[1], c[2]) : HardPair(c[1], c[2], i)) =>
            /\ c \in errors'
            /\ \A k \in DOMAIN calls' :
                 << calls'[k].obj, calls'[k].spring >> # c
            /\ rotation_quaternion' = rotation_quaternion
            /\ rotation_mode' = rotation_mode
            /\ ran' ]_vars

\* a pass met a chain with a pair that passes the soft checks and fails the
\* descendant check, and logged its error
C2_Witness ==
  \E c \in visited :
    /\ \E i \in PairsOf(c[1], c[2]) : HardPair(c[1], c[2], i)
    /\ c \in errors
    /\ ran

\* C3: after the first pass that integrates a pair, its head joint's state,
\* fresh before, is initialized and its prevTail is the tail's world position
\* of the start of the pass, whatever was initialized before.
C3_FreshJointInitialized ==
  passes = 1 =>
    \A k \in DOMAIN calls :
      /\ state[CallId(calls[k])].initialized
      /\ state[CallId(calls[k])].prev_tail
           = TailWorld(calls[k].obj, calls[k].spring, calls[k].pair)

\* C4: after N ticks, N update passes have run.
C4_OnePassPerTick == passes = ticks

\* C5: a pass that runs at frame 1 leaves every joint it integrates with
\* prevTail at its current tail position and marked initialized.
C5_FirstFrameReinitializes ==
  (ran /\ frame_current = 1) =>
    \A k \in DOMAIN calls :
      /\ state[CallId(calls[k])].prev_tail
           = TailWorld(calls[k].obj, calls[k].spring, calls[k].pair)
      /\ state[CallId(calls[k])].initialized

\* C6: for every integrated pair the constrained tail position is at the
\* rest distance from the live head position, and it is the tail position
\* observed after the pass.
C6_LengthPreserved ==
  \A k \in DOMAIN calls :
    /\ Abs(calls[k].next_tail_world_location - calls[k].next_head_world_location)
         = calls[k].head_tail_world_distance
    /\ TailWorld(calls[k].obj, calls[k].spring, calls[k].pair)
         = calls[k].next_tail_world_location

\* the rest bone axis in the head's current orientation (the model's pose
\* bones are unrotated)
BoneAxis(c) == Normalized(RestLocation[c.tail] - RestLocation[c.head])

\* C7: for every integrated pair the unconstrained candidate is
\* currentTail + inertia + stiffness + external.
C7_VerletCandidate ==
  \A k \in DOMAIN calls :
    calls[k].candidate
      = calls[k].current_tail_world_location
        + (calls[k].current_tail_world_location - calls[k].prev_tail)
          * (1 - joint.drag_force)
        + DeltaTime * BoneAxis(calls[k]) * joint.stiffness
        + DeltaTime * joint.gravity_dir * joint.gravity_power

\* C8: for every integrated pair the pass puts the head bone in quaternion
\* mode and assigns its rotation, so that with a gravity displacement that
\* moves the constrained tail the rotation differs from the one before.
C8_RotationAssigned ==
  [][ passes' > passes =>
        \A k \in DOMAIN calls' :
          LET c == calls'[k] IN
            /\ rotation_mode'[c.obj][c.head] = "QUATERNION"
            /\ (/\ joint.gravity_power # 0
                /\ c.next_tail_world_location # c.current_tail_world_location)
               => rotation_quaternion'[c.obj][c.head]
                    # rotation_quaternion[c.obj][c.head] ]_vars

\* C9: in a chain where a pair fails a soft check and no pair fails the
\* descendant check, every valid pair is integrated in the pass.
C9_SoftSkipIsLocal ==
  passes >= 1 =>
    \A o \in Objects : \A s \in SpringsOf(o) :
      (/\ Simulated(o)
       /\ ~ HardChain(o, s)
       /\ \E j \in PairsOf(o, s) : ~ SoftOk(o, s, j)) =>
        \A i \in PairsOf(o, s) : ValidPair(o, s, i) => Integrated(o, s, i)

\* C10: after the pass, the head joint of every integrated pair stores as
\* prevTail the tail's world position read before the integration.
C10_PrevTailIsObservedTail ==
  \A k \in DOMAIN calls :
    state[CallId(calls[k])].prev_tail
      = TailWorld(calls[k].obj, calls[k].spring, calls[k].pair)

\* a pass integrated two pairs, one of which moved the constrained tail away
\* from the observed tail, and one of which was not the initialising call
C10_Witness ==
  /\ Len(calls) >= 2
  /\ \E k \in DOMAIN calls :
       /\ calls[k].next_tail_world_location # calls[k].current_tail_world_location
       /\ state[CallId(calls[k])].prev_tail = calls[k].current_tail_world_location
  /\ \E k \in DOMAIN calls :
       /\ ~ state[CallId(calls[k])].initialized
       /\ calls[k].current_tail_world_location # 0

====
